---- MODULE Spec2Model ----
(***************************************************************************)
(* prANA price bot (src/main.py): the resilient extraction pipeline        *)
(* (fetch_price_attempt, fetch_price) running in an executor thread, and   *)
(* the update scheduler (update_bot_status) with the gateway event         *)
(* handlers (on_ready, on_disconnect, on_resumed) running on the event     *)
(* loop.                                                                   *)
(*                                                                         *)
(* A text is a sequence of one-character strings.  Python's None is the    *)
(* one-element sequence <<"None">>, which no text equals.                  *)
(***************************************************************************)
EXTENDS Naturals, Integers, Sequences, FiniteSets, TLC

\* Number of scheduler ticks explored (the task loop itself never ends).
MaxCycles == 2

None == <<"None">>

\* fetch_price: max_attempts = 3
max_attempts == 3

\* update_bot_status: the streak length from which the adaptive delay applies
failure_threshold == 3

\* ---------------------------------------------------------------- texts

Digit == {"0", "1", "2", "3", "4", "5", "6", "7", "8", "9"}

Whitespace == {" ", "\t", "\n"}

\* str.replace(tok, ""): remove the non-overlapping occurrences of tok, left to right
RECURSIVE Replace(_, _)
Replace(s, tok) ==
    IF Len(s) < Len(tok) THEN s
    ELSE IF SubSeq(s, 1, Len(tok)) = tok
         THEN Replace(SubSeq(s, Len(tok) + 1, Len(s)), tok)
         ELSE <<Head(s)>> \o Replace(Tail(s), tok)

RECURSIVE LStrip(_)
LStrip(s) ==
    IF s # <<>> /\ Head(s) \in Whitespace THEN LStrip(Tail(s)) ELSE s

RECURSIVE RStrip(_)
RStrip(s) ==
    IF s # <<>> /\ s[Len(s)] \in Whitespace
    THEN RStrip(SubSeq(s, 1, Len(s) - 1)) ELSE s

\* str.strip()
Strip(s) == RStrip(LStrip(s))

\* Mutant of CleanPrice: the thousands separators stay
CleanPrice_keeps_commas(s) ==
    Strip(Replace(Replace(s, <<"U", "S", "D", "C">>), <<"$">>))

\* price_text.replace("USDC", "").replace("$", "").replace(",", "").strip()
CleanPrice(s) ==
    Strip(Replace(Replace(Replace(s, <<"U", "S", "D", "C">>), <<"$">>), <<",">>))

Lower(c) ==
    CASE c = "I" -> "i" [] c = "N" -> "n" [] c = "F" -> "f" [] c = "A" -> "a"
      [] c = "T" -> "t" [] c = "Y" -> "y" [] c = "E" -> "e" [] OTHER -> c

LowerSeq(s) == [i \in 1..Len(s) |-> Lower(s[i])]

\* digit (["_"] digit)*
IsDigitPart(s) ==
    /\ s # <<>>
    /\ s[1] \in Digit
    /\ s[Len(s)] \in Digit
    /\ \A i \in 1..Len(s) :
          \/ s[i] \in Digit
          \/ s[i] = "_" /\ i < Len(s) /\ s[i + 1] # "_"

Positions(s, cs) == {i \in 1..Len(s) : s[i] \in cs}

DropSign(s) ==
    IF s # <<>> /\ Head(s) \in {"+", "-"} THEN Tail(s) ELSE s

\* digitpart ["." [digitpart]] | "." digitpart
IsMantissa(s) ==
    LET dots == Positions(s, {"."}) IN
    IF dots = {} THEN IsDigitPart(s)
    ELSE IF Cardinality(dots) > 1 THEN FALSE
    ELSE LET i == CHOOSE j \in dots : TRUE
             l == SubSeq(s, 1, i - 1)
             r == SubSeq(s, i + 1, Len(s))
         IN /\ l = <<>> \/ IsDigitPart(l)
            /\ r = <<>> \/ IsDigitPart(r)
            /\ ~(l = <<>> /\ r = <<>>)

IsDecimal(s) ==
    LET es == Positions(s, {"e", "E"}) IN
    IF es = {} THEN IsMantissa(s)
    ELSE IF Cardinality(es) > 1 THEN FALSE
    ELSE LET i == CHOOSE j \in es : TRUE
         IN /\ IsMantissa(SubSeq(s, 1, i - 1))
            /\ IsDigitPart(DropSign(SubSeq(s, i + 1, Len(s))))

\* float(text) does not raise ValueError
IsPyFloat(s) ==
    LET body == DropSign(Strip(s)) IN
    \/ LowerSeq(body) \in {<<"i", "n", "f">>, <<"n", "a", "n">>,
                           <<"i", "n", "f", "i", "n", "i", "t", "y">>}
    \/ IsDecimal(body)

\* bool(x) of a str-or-None
Truthy(x) == x # None /\ x # <<>>

\* Texts an element of the page can render (element.text)
PageTexts ==
    { <<>>,
      <<" ">>,
      <<"$", "0", ".", "5">>,
      <<" ", "0", ".", "5">>,
      <<"1", ",", "2", " ", "U", "S", "D", "C">>,
      <<"$">>,
      <<"N", "/", "A">>,
      <<"-", "1">> }

\* Mutant of DisplayName: the name is built without the currency symbol
DisplayName_no_symbol(p) == <<"prANA Price: ">> \o p

\* f"📊prANA Price: ${price}"
DisplayName(p) == <<"prANA Price: ", "$">> \o p

\* ------------------------------------------------------- provisioning

\* Last whitespace-delimited token of "<browser> --version", split at ".";
\* <<>> stands for an empty output (no token at all)
VersionTokens ==
    { <<"138", "0", "7204", "183">>,
      <<"120", "0", "6099", "109">>,
      <<"114", "0", "5735", "90">>,
      <<"unknown">>,
      <<"", "5">>,
      <<>> }

\* What the host offers to one provisioning call
ProvisionEnvs ==
    [ chrome          : {"GOOGLE_CHROME_BIN", "well_known_path", "none"},
      version_run     : {"ok", "nonzero_exit", "exception"},
      version_token   : VersionTokens,
      override_driver : BOOLEAN,
      lookup          : {"200", "other_status", "exception"},
      download        : {"ok", "RequestException", "exception"},
      in_archive      : BOOLEAN,
      smoke_test      : {"ok", "nonzero_exit", "exception"} ]

\* find_chrome_binary(): the override path, the first well-known path, or None
find_chrome_binary(env) ==
    IF env.chrome = "none" THEN "None" ELSE env.chrome

\* get_chrome_version(chrome_path): (version_number, major_version), or
\* (None, None) as found = FALSE
get_chrome_version(env) ==
    IF env.version_run = "ok" /\ env.version_token # <<>>
    THEN [found |-> TRUE, version_number |-> env.version_token,
          major_version |-> env.version_token[1]]
    ELSE [found |-> FALSE, version_number |-> <<>>, major_version |-> ""]

\* The strings int() accepts among the major versions above, with their values
IntOf(str) ==
    CASE str = "138" -> 138 [] str = "120" -> 120 [] str = "114" -> 114
      [] OTHER -> -1

\* The hardcoded version for Chrome 138, else f"{major_version}.0.6000.0"
fallback_version(major_version) ==
    IF major_version = "138"
    THEN <<"138", "0", "6906", "100">>
    ELSE <<major_version, "0", "6000", "0">>

NoDriver == [path |-> "None", driver_version |-> <<>>, downloaded |-> FALSE]

\* download_compatible_chromedriver(major_version): the driver path or None,
\* the release it asked for, and whether the archive download was made
download_compatible_chromedriver(major_version, env) ==
    IF env.override_driver
    THEN [path |-> "CHROMEDRIVER_PATH", driver_version |-> <<>>,
          downloaded |-> FALSE]
    ELSE IF IntOf(major_version) < 0
    THEN NoDriver
    ELSE LET looked_up == env.lookup = "200"
             driver_version ==
                 IF looked_up THEN <<major_version, "LATEST_RELEASE">>
                 ELSE fallback_version(major_version)
         IN IF IntOf(major_version) < 115 /\ ~looked_up
            THEN NoDriver
            ELSE IF /\ env.download = "ok"
                    /\ env.in_archive
                    /\ env.smoke_test = "ok"
                 THEN [path |-> "/tmp/chromedriver_new/chromedriver",
                       driver_version |-> driver_version, downloaded |-> TRUE]
                 ELSE [path |-> "None", driver_version |-> driver_version,
                       downloaded |-> TRUE]

NoPaths == [chromedriver_path |-> "None", chrome_binary |-> "None"]

\* setup_chromedriver_and_chrome(): (chromedriver_path, chrome_binary) or
\* (None, None)
setup_chromedriver_and_chrome(env) ==
    LET chrome_binary == find_chrome_binary(env)
        v == get_chrome_version(env)
        d == download_compatible_chromedriver(v.major_version, env)
    IN IF chrome_binary = "None" THEN NoPaths
       ELSE IF ~v.found \/ v.major_version = "" THEN NoPaths
       ELSE IF d.path = "None" THEN NoPaths
       ELSE [chromedriver_path |-> d.path, chrome_binary |-> chrome_binary]

\* Every result a provisioning call can give
ProvisionResults == {setup_chromedriver_and_chrome(env) : env \in ProvisionEnvs}

\* ------------------------------------------------------------- locators

selectors_to_try ==
    << <<"CLASS_NAME", "DataPoint_dataPointValue__Bzf_E">>,
       <<"CSS_SELECTOR", "[class*='DataPoint_dataPointValue']">>,
       <<"CSS_SELECTOR", "[class*='dataPointValue']">>,
       <<"CSS_SELECTOR", "[data-testid*='price']">>,
       <<"CSS_SELECTOR", ".price-value">>,
       <<"CSS_SELECTOR", "[class*='price']">>,
       <<"XPATH", "//span[contains(@class, 'DataPoint')]">>,
       <<"XPATH", "//div[contains(@class, 'DataPoint')]//span">>,
       <<"XPATH", "//span[contains(text(), '$')]">>,
       <<"XPATH", "//div[contains(text(), 'USDC')]">> >>

\* Exceptions one locator strategy can raise (wait.until, visibility_of)
LocateErrors == {"TimeoutException", "NoSuchElementException", "Exception"}

Strategies == 1..Len(selectors_to_try)

\* What the page holds for one strategy: no (visible) element, so that the
\* strategy raises, or an element with its text
NoElement == [found |-> FALSE, text |-> <<>>]

Element(t) == [found |-> TRUE, text |-> t]

LazyOutcomes == {NoElement} \cup {Element(t) : t \in PageTexts}

\* The page is not fixed in advance: each strategy finds whatever it finds
NoPage == <<>>

\* Number of strategies that find an element on a page drawn in advance
MaxMatches == 2

\* The sets of strategies that find an element on a page drawn in advance
MatchSets == {S \in SUBSET Strategies : Cardinality(S) <= MaxMatches}

\* The page on which exactly the strategies in S find an element, with text f[i]
PageOn(S, f) ==
    [i \in Strategies |-> IF i \in S THEN Element(f[i]) ELSE NoElement]

\* Tokens and whitespace a rendered price is decorated with
Tokens == { <<"U", "S", "D", "C">>, <<"$">>, <<",">>, <<" ">> }

\* Number of tokens on each side of a decorated number
MaxTokens == 2

RECURSIVE Decorations(_)
Decorations(n) ==
    IF n = 0 THEN {<<>>}
    ELSE LET d == Decorations(n - 1) IN d \cup {x \o t : x \in d, t \in Tokens}

\* Decimal numbers as rendered, with thousands separators
RenderedNumbers ==
    { <<"0", ".", "5">>,
      <<"1", ",", "2", "3", "4", ".", "5", "6">>,
      <<"1", "2">> }

DecoratedTexts ==
    { pre \o n \o post :
        pre \in Decorations(MaxTokens), n \in RenderedNumbers,
        post \in Decorations(MaxTokens) }

\* The page whose first strategy finds the text t and no other finds anything
PageOfText(t) == [i \in Strategies |-> IF i = 1 THEN Element(t) ELSE NoElement]

\* Exceptions the session can raise outside the locator loop
SessionErrors == {"TimeoutException", "WebDriverException", "Exception"}

\* Outcomes of channel.edit(name=...)
RenameOutcomes == {"ok", "Forbidden", "rate_limited", "HTTPException", "Exception"}

\* What client.get_channel(VOICE_CHANNEL_ID) can give
ChannelKinds == {"VoiceChannel", "TextChannel", "missing"}

\* ---------------------------------------------------------------- state

VARIABLES
    ready,            \* client.is_ready()
    loop_running,     \* the update_bot_status task loop has been started
    last_price,       \* global last_price
    fetch_stats,      \* global fetch_stats
    channel_name,     \* the voice channel's display name, as last edited
    cpc,              \* position of the update_bot_status coroutine
    price,            \* update_bot_status: local price
    additional_delay, \* update_bot_status: local additional_delay
    fpc,              \* position of the executor thread in fetch_price
    attempt,          \* fetch_price: loop variable attempt
    cf_read,          \* fetch_price: value read by consecutive_failures += 1
    driver,           \* fetch_price_attempt: local driver
    sel,              \* fetch_price_attempt: index in selectors_to_try
    price_text,       \* fetch_price_attempt: local price_text
    result,           \* value returned by fetch_price_attempt / fetch_price
    raised,           \* an exception is propagating out of fetch_price_attempt
    session,          \* the browser session of the current attempt
    call,             \* observations of the current fetch_price call
    att,              \* observations of the current attempt
    cycles,           \* number of ticks of the task loop followed so far
    cur,              \* observations of the current scheduler cycle
    prev,             \* observations of the cycle before it
    page,             \* what the loaded page holds for each strategy, or NoPage
    orphans,          \* browsers that earlier attempts of the current
                      \* fetch_price call left running
    host,             \* <<what the host offers to provisioning>>, or NoHost
    hist              \* what has happened since the process started

vars ==
    << ready, loop_running, last_price, fetch_stats, channel_name, cpc, price,
       additional_delay, fpc, attempt, cf_read, driver, sel, price_text, result,
       raised, session, call, att, cycles, cur, prev, page, orphans,
       host, hist >>

sched_vars == << cpc, price, additional_delay, cycles, cur, prev >>

attempt_vars == << driver, sel, price_text, result, raised, session, att >>

global_vars == << ready, loop_running, last_price, channel_name >>

NoCall ==
    [attempts |-> 0, sessions |-> 0, quits |-> 0, failed |-> 0, failures0 |-> 0,
     success0 |-> 0, escaped |-> FALSE, consecutive0 |-> 0, resumed |-> FALSE]

NoAttempt ==
    [quit_calls |-> 0, quit_raised |-> FALSE, exit_path |-> "none",
     provision_calls |-> 0, provisioned |-> "none"]

\* The host is not fixed in advance: each provisioning call finds whatever it finds
NoHost == <<>>

\* Attempts failed in a row and fetch_price calls failed in a row since the
\* last success or reconnect signal, and attempts completed since the start
NoHistory == [streak |-> 0, failed_calls |-> 0, completed |-> 0]

NoCycle ==
    [skipped |-> FALSE, last0 |-> None, presence_calls |-> 0, rename_calls |-> 0,
     channel |-> "none", rename |-> "none", presence |-> "none"]

NoPrev ==
    [skipped |-> FALSE, last0 |-> None, price |-> None, rename_calls |-> 0,
     renamed |-> FALSE]

Init ==
    /\ ready = FALSE
    /\ loop_running = FALSE
    /\ last_price = None
    /\ fetch_stats = [success |-> 0, failures |-> 0, consecutive_failures |-> 0]
    /\ channel_name = None
    /\ cpc = "idle"
    /\ price = None
    /\ additional_delay = 0
    /\ fpc = "idle"
    /\ attempt = 1
    /\ cf_read = 0
    /\ driver = "None"
    /\ sel = 1
    /\ price_text = None
    /\ result = None
    /\ raised = FALSE
    /\ session = "none"
    /\ call = NoCall
    /\ att = NoAttempt
    /\ cycles = 0
    /\ cur = NoCycle
    /\ prev = NoPrev
    /\ page = NoPage
    /\ orphans = 0
    /\ host = NoHost
    /\ hist = NoHistory

\* ------------------------------------------- fetch_price_attempt (thread)

\* Entry of fetch_price_attempt(attempt, max_attempts): driver = None
BeginAttempt ==
    /\ fpc' = "setup"
    /\ call' = [call EXCEPT !.attempts = @ + 1]
    /\ UNCHANGED attempt_vars

\* Mutant of Caught: the handler returns without the finally block
Caught_without_finally(e) ==
    /\ fpc' = "attempt_returned"
    /\ att' = [att EXCEPT !.exit_path = e]
    /\ result' = None
    /\ raised' \in BOOLEAN

\* An exception reaches the handlers of fetch_price_attempt: the attempt
\* returns None through the finally block, unless the handler itself raises
Caught(e) ==
    /\ fpc' = "finally"
    /\ att' = [att EXCEPT !.exit_path = e]
    /\ result' = None
    /\ raised' \in BOOLEAN

\* A return statement inside the try block: control passes to the finally block
ReturnVia(path, value) ==
    /\ fpc' = "finally"
    /\ att' = [att EXCEPT !.exit_path = path]
    /\ result' = value
    /\ raised' = FALSE

\* for attempt in range(1, max_attempts + 1): the delay before a retry
LoopTop ==
    /\ fpc = "loop_top"
    /\ IF attempt > 1
       THEN /\ fpc' = "sleep"
            /\ UNCHANGED << attempt_vars, call >>
       ELSE BeginAttempt
    /\ UNCHANGED << global_vars, page, host, hist, orphans, fetch_stats, sched_vars, attempt, cf_read >>

\* time.sleep(base_delay + random.randint(10, 30)) is over
SleepDone ==
    /\ fpc = "sleep"
    /\ BeginAttempt
    /\ UNCHANGED << global_vars, page, host, hist, orphans, fetch_stats, sched_vars, attempt, cf_read >>

\* What a provisioning call returns on the host
SetupResults ==
    IF host = NoHost THEN ProvisionResults
    ELSE {setup_chromedriver_and_chrome(host[1])}

\* Mutant of paths_ok: the result of provisioning is not tested
paths_ok_always(paths) == TRUE

\* not (not chromedriver_path or not chrome_binary)
paths_ok(paths) ==
    paths.chromedriver_path # "None" /\ paths.chrome_binary # "None"

\* chromedriver_path, chrome_binary = setup_chromedriver_and_chrome()
Setup ==
    /\ fpc = "setup"
    /\ \E paths \in SetupResults :
          LET done == [att EXCEPT !.provision_calls = @ + 1,
                                  !.provisioned =
                                      IF paths = NoPaths THEN "failed" ELSE "ok"]
          IN IF paths_ok(paths)
             THEN /\ fpc' = "construct"
                  /\ att' = done
                  /\ UNCHANGED << result, raised >>
             ELSE /\ fpc' = "finally"
                  /\ att' = [done EXCEPT !.exit_path = "setup_failed"]
                  /\ result' = None
                  /\ raised' = FALSE
    /\ UNCHANGED << global_vars, page, host, hist, orphans, fetch_stats, sched_vars, attempt, cf_read,
                    driver, sel, price_text, session, call >>

\* driver = webdriver.Chrome(service=service, options=options)
Construct ==
    /\ fpc = "construct"
    /\ \/ /\ driver' = "WebDriver"
          /\ session' = "live"
          /\ call' = [call EXCEPT !.sessions = @ + 1]
          /\ fpc' = "navigate"
          /\ UNCHANGED << att, result, raised >>
       \/ /\ \E e \in {"WebDriverException", "Exception"} : Caught(e)
          /\ UNCHANGED << driver, session, call >>
    /\ UNCHANGED << global_vars, page, host, hist, orphans, fetch_stats, sched_vars, attempt, cf_read,
                    sel, price_text >>

\* set_page_load_timeout, implicitly_wait, driver.get(url)
Navigate ==
    /\ fpc = "navigate"
    /\ \/ /\ fpc' = "page_load"
          /\ UNCHANGED << att, result, raised >>
       \/ \E e \in SessionErrors : Caught(e)
    /\ UNCHANGED << global_vars, page, host, hist, orphans, fetch_stats, sched_vars, attempt, cf_read,
                    driver, sel, price_text, session, call >>

\* wait_for_page_load(driver, timeout=180): True or False, never an error;
\* either way the attempt goes on to the locator loop
PageLoad ==
    /\ fpc = "page_load"
    /\ \E loaded \in BOOLEAN : fpc' = "locate"
    /\ sel' = 1
    /\ UNCHANGED << global_vars, page, host, hist, orphans, fetch_stats, sched_vars, attempt, cf_read,
                    driver, price_text, result, raised, session, call, att >>

\* for selector_type, selector in selectors_to_try: the next iteration, or the
\* end of the loop
NextSelector ==
    IF sel < Len(selectors_to_try)
    THEN sel' = sel + 1 /\ fpc' = "locate"
    ELSE sel' = 1 /\ fpc' = "process"

\* What strategy i finds on the page
ElementOutcomes(i) == IF page = NoPage THEN LazyOutcomes ELSE {page[i]}

\* Mutant of text_found: the loop never ends early
text_found_never(t) == FALSE

\* if price_text and len(price_text) > 0:
text_found(t) == Truthy(t) /\ Len(t) > 0

\* One iteration of the locator loop: the strategy raises and is skipped, or
\* yields a text; a non-empty text leaves the loop (break)
Locate ==
    /\ fpc = "locate"
    /\ \E o \in ElementOutcomes(sel) :
          IF o.found
          THEN /\ price_text' = Strip(o.text)
               /\ IF text_found(Strip(o.text))
                  THEN sel' = 1 /\ fpc' = "process"
                  ELSE NextSelector
          ELSE /\ \E e \in LocateErrors : NextSelector
               /\ UNCHANGED price_text
    /\ UNCHANGED << global_vars, page, host, hist, orphans, fetch_stats, sched_vars, attempt, cf_read,
                    driver, result, raised, session, call, att >>

\* Mutant of attempt_outcome: a text that is no number is reported as no text
attempt_outcome_not_found(text) ==
    IF Truthy(text) /\ Truthy(CleanPrice(text)) /\ IsPyFloat(CleanPrice(text))
    THEN "success"
    ELSE "not_found"

\* if price_text: if cleaned_price: try: float(cleaned_price) ... : the return
\* statement the code after the locator loop ends with
attempt_outcome(text) ==
    IF Truthy(text)
    THEN LET cleaned_price == CleanPrice(text) IN
         IF Truthy(cleaned_price)
         THEN IF IsPyFloat(cleaned_price)
              THEN "success"
              ELSE "invalid_format"
         ELSE "empty_cleaned"
    ELSE "not_found"

\* The code after the locator loop: return cleaned_price, or return None
Process ==
    /\ fpc = "process"
    /\ LET outcome == attempt_outcome(price_text) IN
       ReturnVia(outcome,
                 IF outcome = "success" THEN CleanPrice(price_text) ELSE None)
    /\ UNCHANGED << global_vars, page, host, hist, orphans, fetch_stats, sched_vars, attempt, cf_read,
                    driver, sel, price_text, session, call >>

\* Outcomes of driver.quit(): it returns, or raises with the browser gone,
\* or raises and leaves the browser and driver processes running
QuitOutcomes == {"ok", "error", "error_left_running"}

\* finally: if driver: try: driver.quit() except Exception: (log)
Finally ==
    /\ fpc = "finally"
    /\ IF driver # "None"
       THEN \E q \in QuitOutcomes :
               /\ att' = [att EXCEPT !.quit_calls = @ + 1,
                                     !.quit_raised = (q # "ok")]
               /\ call' = [call EXCEPT !.quits = @ + 1]
               /\ session' = IF q = "error_left_running" THEN "live" ELSE "closed"
       ELSE UNCHANGED << att, session, call >>
    /\ fpc' = "attempt_returned"
    /\ UNCHANGED << global_vars, page, host, hist, orphans, fetch_stats, sched_vars, attempt, cf_read,
                    driver, sel, price_text, result, raised >>

\* fetch_price_attempt has returned or raised: its locals are gone; a browser
\* that quit() left running stays
DropLocals ==
    /\ orphans' = IF session = "live" THEN orphans + 1 ELSE orphans
    /\ driver' = "None"
    /\ sel' = 1
    /\ price_text' = None
    /\ raised' = FALSE
    /\ session' = "none"
    /\ att' = NoAttempt

\* ---------------------------------------------------- fetch_price (thread)

\* Mutant of has_budget: the comparison is off by one
has_budget_off_by_one(a) == a <= max_attempts

\* if attempt < max_attempts: continue   else: break
has_budget(a) == a < max_attempts

\* Mutant of count_failure: the failure is logged and not counted
count_failure_skipped(stats) == stats

\* Mutant of count_failure: the failure is counted in both branches
count_failure_twice(stats) == [stats EXCEPT !.failures = @ + 2]

\* fetch_stats["failures"] += 1
count_failure(stats) == [stats EXCEPT !.failures = @ + 1]

\* Mutant of count_success: the success is counted twice
count_success_twice(stats) ==
    [stats EXCEPT !.success = @ + 2, !.consecutive_failures = 0]

\* Mutant of count_success: the streak is not reset
count_success_keeps_streak(stats) == [stats EXCEPT !.success = @ + 1]

\* fetch_stats["success"] += 1; fetch_stats["consecutive_failures"] = 0
count_success(stats) ==
    [stats EXCEPT !.success = @ + 1, !.consecutive_failures = 0]

\* if price: ... return price
AttemptSucceeded ==
    /\ fpc = "attempt_returned"
    /\ ~raised
    /\ Truthy(result)
    /\ fetch_stats' = count_success(fetch_stats)
    /\ fpc' = "returned"
    /\ attempt' = 1
    /\ hist' = [streak |-> 0, failed_calls |-> 0,
                completed |-> hist.completed + 1]
    /\ DropLocals
    /\ UNCHANGED << global_vars, page, host, sched_vars, cf_read, result, call >>

\* else: the attempt returned None; failures += 1 and the read of
\* consecutive_failures += 1
AttemptFailed ==
    /\ fpc = "attempt_returned"
    /\ ~raised
    /\ ~Truthy(result)
    /\ fetch_stats' = count_failure(fetch_stats)
    /\ cf_read' = fetch_stats.consecutive_failures
    /\ call' = [call EXCEPT !.failed = @ + 1]
    /\ fpc' = "cf_write"
    /\ hist' = [hist EXCEPT !.completed = @ + 1]
    /\ DropLocals
    /\ UNCHANGED << global_vars, page, host, sched_vars, attempt, result >>

\* Mutant of critical_caught: fetch_price has no except clause
critical_caught_never(r) == FALSE

\* except Exception: every exception raised out of fetch_price_attempt is an
\* Exception, and is handled
critical_caught(r) == r

\* except Exception as e: the attempt raised; failures += 1 and the read of
\* consecutive_failures += 1.  An exception that no clause handles ends
\* fetch_price and is raised by the await in update_bot_status
CriticalError ==
    /\ fpc = "attempt_returned"
    /\ raised
    /\ IF critical_caught(raised)
       THEN /\ fetch_stats' = count_failure(fetch_stats)
            /\ cf_read' = fetch_stats.consecutive_failures
            /\ call' = [call EXCEPT !.failed = @ + 1]
            /\ fpc' = "cf_write"
            /\ UNCHANGED attempt
       ELSE /\ call' = [call EXCEPT !.escaped = TRUE]
            /\ fpc' = "returned"
            /\ attempt' = 1
            /\ UNCHANGED << fetch_stats, cf_read >>
    /\ hist' = [hist EXCEPT !.completed = @ + 1]
    /\ DropLocals
    /\ UNCHANGED << global_vars, page, host, sched_vars, result >>

\* Mutant of next_streak: the streak is stored as it was read
next_streak_stuck(n) == n

\* fetch_stats["consecutive_failures"] += 1, on the value read
next_streak(n) == n + 1

\* The store of consecutive_failures += 1, then continue or break; after the
\* loop fetch_price returns None
StoreConsecutive ==
    /\ fpc = "cf_write"
    /\ fetch_stats' =
          [fetch_stats EXCEPT !.consecutive_failures = next_streak(cf_read)]
    /\ cf_read' = 0
    /\ IF has_budget(attempt)
       THEN /\ attempt' = attempt + 1
            /\ fpc' = "loop_top"
            /\ hist' = [hist EXCEPT !.streak = @ + 1]
       ELSE /\ attempt' = 1
            /\ fpc' = "returned"
            /\ hist' = [hist EXCEPT !.streak = @ + 1, !.failed_calls = @ + 1]
    /\ result' = None
    /\ UNCHANGED << global_vars, page, host, orphans, sched_vars, driver, sel, price_text,
                    raised, session, att, call >>

\* ------------------------------------------ update_bot_status (event loop)

\* Mutant of adaptive_delay: the cap is missing
adaptive_delay_uncapped(n) == n * 30

\* min(fetch_stats["consecutive_failures"] * 30, 300)
adaptive_delay(n) == IF n * 30 < 300 THEN n * 30 ELSE 300

\* Mutant of price_changed: the comparison with last_price is missing
price_changed_any(p, last) == Truthy(p)

\* if price: if price != last_price:
price_changed(p, last) == Truthy(p) /\ p # last

\* Mutant of channel_valid: the isinstance test is missing
channel_valid_any_kind(ch) == ch # "missing"

\* channel and isinstance(channel, discord.VoiceChannel)
channel_valid(ch) == ch = "VoiceChannel"

\* Mutant of rename_confirmed: last_price = price is executed whatever the outcome
rename_confirmed_always(outcome) == TRUE

\* Mutant of rename_confirmed: a rate-limited edit counts as done
rename_confirmed_when_limited(outcome) == outcome \in {"ok", "rate_limited"}

\* The outcomes of channel.edit after which last_price = price is executed
rename_confirmed(outcome) == outcome = "ok"

\* Mutant of rename_caught: HTTPException is not handled
rename_caught_no_http(outcome) == outcome \in {"Forbidden", "Exception"}

\* The outcomes of channel.edit that an except clause of update_bot_status takes
rename_caught(outcome) ==
    outcome \in {"Forbidden", "rate_limited", "HTTPException", "Exception"}

\* Mutant of cycle_skipped: the is_ready() test is missing
cycle_skipped_never(r) == FALSE

\* if not client.is_ready(): return
cycle_skipped(r) == ~r

\* loop.run_in_executor(None, fetch_price)
StartFetch ==
    /\ cpc' = "fetch"
    /\ fpc' = "loop_top"
    /\ attempt' = 1
    /\ call' = [NoCall EXCEPT !.failures0 = fetch_stats.failures,
                              !.success0 = fetch_stats.success,
                              !.consecutive0 =
                                  fetch_stats.consecutive_failures]

\* What the cycle that just ended is remembered as
Finished ==
    [skipped |-> cur.skipped, last0 |-> cur.last0, price |-> price,
     rename_calls |-> cur.rename_calls, renamed |-> (cur.rename = "ok")]

\* The timer fires: a new run of update_bot_status begins
Tick ==
    /\ loop_running
    /\ cpc = "idle"
    /\ cycles < MaxCycles
    /\ cycles' = cycles + 1
    /\ prev' = IF cycles = 0 THEN prev ELSE Finished
    /\ price' = None
    /\ IF cycle_skipped(ready)
       THEN /\ cur' = [NoCycle EXCEPT !.skipped = TRUE, !.last0 = last_price]
            /\ UNCHANGED << cpc, fpc, attempt, call, additional_delay >>
       ELSE /\ cur' = [NoCycle EXCEPT !.last0 = last_price]
            /\ IF fetch_stats.consecutive_failures >= failure_threshold
               THEN /\ additional_delay' =
                          adaptive_delay(fetch_stats.consecutive_failures)
                    /\ cpc' = "delay"
                    /\ UNCHANGED << fpc, attempt, call >>
               ELSE /\ additional_delay' = 0
                    /\ StartFetch
    /\ UNCHANGED << global_vars, page, host, hist, orphans, fetch_stats, cf_read, attempt_vars >>

\* await asyncio.sleep(additional_delay) is over
DelayDone ==
    /\ cpc = "delay"
    /\ StartFetch
    /\ additional_delay' = 0
    /\ UNCHANGED << global_vars, page, host, hist, orphans, fetch_stats, cf_read, attempt_vars,
                    price, cycles, cur, prev >>

\* price = await loop.run_in_executor(None, fetch_price) completes (an
\* exception it raises is logged by the outer except clause, which ends the
\* cycle); when the price is new, client.change_presence(...) is called
FetchDone ==
    /\ cpc = "fetch"
    /\ fpc = "returned"
    /\ fpc' = "idle"
    /\ price' = result
    /\ result' = None
    /\ call' = NoCall
    /\ orphans' = 0
    /\ IF ~call.escaped /\ price_changed(result, last_price)
       THEN /\ cpc' = "presence"
            /\ cur' = [cur EXCEPT !.presence_calls = @ + 1]
       ELSE /\ cpc' = "idle"
            /\ UNCHANGED cur
    /\ UNCHANGED << global_vars, page, host, hist, fetch_stats, cf_read, driver, sel,
                    price_text, raised, session, att, attempt, additional_delay,
                    cycles, prev >>

\* Outcomes of client.change_presence(...)
PresenceOutcomes == {"ok", "HTTPException", "Exception"}

\* Mutant of presence_caught: the call is not wrapped in try/except
presence_caught_none(outcome) == FALSE

\* except Exception as status_error: (around change_presence)
presence_caught(outcome) == outcome \in {"HTTPException", "Exception"}

\* change_presence returned or raised (logged); channel = get_channel(...);
\* when it is a voice channel, channel.edit(name=...) is called.  An
\* exception that the inner clause does not handle ends the cycle in the
\* outer except clause
PresenceDone ==
    /\ cpc = "presence"
    /\ \E outcome \in PresenceOutcomes, ch \in ChannelKinds :
          LET seen == [cur EXCEPT !.presence =
                                      IF outcome = "ok" THEN "ok" ELSE "failed"]
          IN IF outcome = "ok" \/ presence_caught(outcome)
             THEN IF channel_valid(ch)
                  THEN /\ cpc' = "rename"
                       /\ cur' = [seen EXCEPT !.channel = ch,
                                              !.rename_calls = @ + 1]
                  ELSE /\ cpc' = "idle"
                       /\ cur' = [seen EXCEPT !.channel = ch]
             ELSE /\ cpc' = "idle"
                  /\ cur' = seen
    /\ UNCHANGED << global_vars, page, host, hist, orphans, fetch_stats, cf_read, attempt_vars, attempt,
                    call, fpc, price, additional_delay, cycles, prev >>

\* await channel.edit(name=channel_name) returns or raises; the coroutine
\* runs on to its end: last_price = price, or the except clause for the error
RenameDone ==
    /\ cpc = "rename"
    /\ \E outcome \in RenameOutcomes :
          /\ cur' = [cur EXCEPT !.rename = outcome]
          /\ channel_name' =
                IF outcome = "ok" THEN DisplayName(price) ELSE channel_name
          /\ last_price' = IF rename_confirmed(outcome) THEN price ELSE last_price
          /\ loop_running' = (rename_confirmed(outcome) \/ rename_caught(outcome))
    /\ cpc' = "idle"
    /\ UNCHANGED << ready, fetch_stats, cf_read, attempt_vars, attempt, call,
                    fpc, price, additional_delay, cycles, prev, page, orphans,
                    host, hist >>

\* ------------------------------------------------ gateway event handlers

\* on_ready: update_bot_status.start() (RuntimeError when already running)
OnReady ==
    /\ ready' = TRUE
    /\ loop_running' = TRUE
    /\ UNCHANGED << last_price, channel_name, fetch_stats, sched_vars, fpc,
                    attempt, cf_read, attempt_vars, call, page, orphans,
                    host, hist >>

\* on_disconnect: the gateway session is lost; is_ready() turns false when
\* the session cannot be resumed
OnDisconnect ==
    /\ ready
    /\ ready' = FALSE
    /\ UNCHANGED << loop_running, last_price, channel_name, fetch_stats,
                    sched_vars, fpc, attempt, cf_read, attempt_vars, call, page,
                    orphans, host, hist >>

\* on_resumed: fetch_stats["consecutive_failures"] = 0
OnResumed ==
    /\ ready
    /\ fetch_stats' = [fetch_stats EXCEPT !.consecutive_failures = 0]
    /\ hist' = [hist EXCEPT !.streak = 0, !.failed_calls = 0]
    /\ call' = IF fpc \notin {"idle", "returned"}
               THEN [call EXCEPT !.resumed = TRUE, !.consecutive0 = 0]
               ELSE call
    /\ UNCHANGED << global_vars, page, host, orphans, sched_vars, fpc, attempt, cf_read,
                    attempt_vars >>

Next ==
    \/ LoopTop
    \/ SleepDone
    \/ Setup
    \/ Construct
    \/ Navigate
    \/ PageLoad
    \/ Locate
    \/ Process
    \/ Finally
    \/ AttemptSucceeded
    \/ AttemptFailed
    \/ CriticalError
    \/ StoreConsecutive
    \/ Tick
    \/ DelayDone
    \/ FetchDone
    \/ PresenceDone
    \/ RenameDone
    \/ OnReady
    \/ OnDisconnect
    \/ OnResumed

Spec == Init /\ [][Next]_vars

\* ------------------------------------- one attempt on a page drawn in advance

\* The first attempt of the first fetch_price call has loaded the page and
\* enters the locator loop
AttemptInit ==
    /\ ready = TRUE
    /\ loop_running = TRUE
    /\ last_price = None
    /\ fetch_stats = [success |-> 0, failures |-> 0, consecutive_failures |-> 0]
    /\ channel_name = None
    /\ cpc = "fetch"
    /\ price = None
    /\ additional_delay = 0
    /\ fpc = "locate"
    /\ attempt = 1
    /\ cf_read = 0
    /\ driver = "WebDriver"
    /\ sel = 1
    /\ price_text = None
    /\ result = None
    /\ raised = FALSE
    /\ session = "live"
    /\ call = [NoCall EXCEPT !.attempts = 1, !.sessions = 1]
    /\ att = [NoAttempt EXCEPT !.provision_calls = 1, !.provisioned = "ok"]
    /\ cycles = 1
    /\ cur = NoCycle
    /\ prev = NoPrev
    /\ \/ \E S \in MatchSets : \E f \in [S -> PageTexts] : page = PageOn(S, f)
       \/ \E t \in DecoratedTexts : page = PageOfText(t)
    /\ orphans = 0
    /\ host = NoHost
    /\ hist = NoHistory

AttemptNext ==
    \/ Locate
    \/ Process
    \/ Finally

AttemptSpec == AttemptInit /\ [][AttemptNext]_vars

\* --------------------------------- a tick of the task loop after a streak

\* Longest streak of failed attempts a tick starts from
MaxStreak == 12

\* The task loop is about to tick while connected, after calls of fetch_price
\* that all failed; on_resumed has reset the streak during the third last,
\* second last or last attempt, or not at all
DelayInit ==
    /\ ready = TRUE
    /\ loop_running = TRUE
    /\ last_price = None
    /\ \E n \in 0..MaxStreak :
          /\ fetch_stats = [success |-> 0, failures |-> 3 * ((n + 2) \div 3),
                            consecutive_failures |-> n]
          /\ hist = [streak |-> n, failed_calls |-> (n + 2) \div 3,
                     completed |-> 3 * ((n + 2) \div 3)]
    /\ channel_name = None
    /\ cpc = "idle"
    /\ price = None
    /\ additional_delay = 0
    /\ fpc = "idle"
    /\ attempt = 1
    /\ cf_read = 0
    /\ driver = "None"
    /\ sel = 1
    /\ price_text = None
    /\ result = None
    /\ raised = FALSE
    /\ session = "none"
    /\ call = NoCall
    /\ att = NoAttempt
    /\ cycles = MaxCycles - 1
    /\ cur = NoCycle
    /\ prev = NoPrev
    /\ page = NoPage
    /\ orphans = 0
    /\ host = NoHost

DelaySpec == DelayInit /\ [][Next]_vars

\* ------------------------------------------- the program on a fixed page
\* Texts the price element of the page shows
EndToEndTexts ==
    { <<"$", "0", ".", "1", "2", "3", "4">>,
      <<"1", ",", "2", "3", "4", ".", "5", " ", "U", "S", "D", "C">> }

\* The process starts; the page has no element of the exact class name and
\* shows its price under the first CSS selector
EndToEndInit ==
    /\ ready = FALSE
    /\ loop_running = FALSE
    /\ last_price = None
    /\ fetch_stats = [success |-> 0, failures |-> 0, consecutive_failures |-> 0]
    /\ channel_name = None
    /\ cpc = "idle"
    /\ price = None
    /\ additional_delay = 0
    /\ fpc = "idle"
    /\ attempt = 1
    /\ cf_read = 0
    /\ driver = "None"
    /\ sel = 1
    /\ price_text = None
    /\ result = None
    /\ raised = FALSE
    /\ session = "none"
    /\ call = NoCall
    /\ att = NoAttempt
    /\ cycles = 0
    /\ cur = NoCycle
    /\ prev = NoPrev
    /\ \E t \in EndToEndTexts : page = PageOn({2}, [i \in {2} |-> t])
    /\ orphans = 0
    /\ host = NoHost
    /\ hist = NoHistory

EndToEndSpec == EndToEndInit /\ [][Next]_vars

\* ------------------------------------------- provisioning on a fixed host
\* The first attempt of a fetch_price call is about to provision, on a host
\* whose offer is fixed
ProvisionInit ==
    /\ ready = TRUE
    /\ loop_running = TRUE
    /\ last_price = None
    /\ fetch_stats = [success |-> 0, failures |-> 0, consecutive_failures |-> 0]
    /\ channel_name = None
    /\ cpc = "fetch"
    /\ price = None
    /\ additional_delay = 0
    /\ fpc = "setup"
    /\ attempt = 1
    /\ cf_read = 0
    /\ driver = "None"
    /\ sel = 1
    /\ price_text = None
    /\ result = None
    /\ raised = FALSE
    /\ session = "none"
    /\ call = [NoCall EXCEPT !.attempts = 1]
    /\ att = NoAttempt
    /\ cycles = 1
    /\ cur = NoCycle
    /\ prev = NoPrev
    /\ page = NoPage
    /\ orphans = 0
    /\ \E env \in ProvisionEnvs : host = <<env>>
    /\ hist = NoHistory

ProvisionNext ==
    \/ Setup
    \/ Construct
    \/ Finally

ProvisionSpec == ProvisionInit /\ [][ProvisionNext]_vars

\* ------------------------------------------------------------- claims

\* A run of update_bot_status that passed the is_ready() test has ended
ConnectedCycleEnded == cycles > 0 /\ cpc = "idle" /\ ~cur.skipped

\* fetch_price has returned None / a price, and the scheduler has not resumed yet
ReturnedNone == fpc = "returned" /\ result = None

ReturnedPrice == fpc = "returned" /\ Truthy(result)

\* C1: a fetch_price call makes at most max_attempts attempts, creates at most
\* one browser session per attempt, and returns None only after exactly
\* max_attempts attempts have failed.
C1_BoundedAttempts ==
    /\ call.attempts <= max_attempts
    /\ call.sessions <= call.attempts
    /\ call.failed <= call.attempts
    /\ ReturnedNone => (call.attempts = max_attempts /\ call.failed = max_attempts)

C1_Witness ==
    ReturnedNone /\ call.attempts = 3 /\ call.failed = 3 /\ call.sessions = 3

\* C2 as stated: a call in which all 3 attempts fail performs exactly 3 session
\* lifecycles, returns None and leaves failureCount 3 higher.
C2_ThreeSessionLifecycles ==
    ReturnedNone =>
        /\ call.sessions = 3
        /\ call.quits = 3
        /\ fetch_stats.failures = call.failures0 + 3

\* C2 amended: each failed attempt adds exactly 1 to failureCount and stores
\* exactly once the value of consecutiveFailures it read plus 1, in either
\* failure branch; a call in which all 3 attempts fail makes exactly 3 attempts
\* and at most 3 session lifecycles (every session created is quit; none for
\* an attempt that fails before a session exists), returns None and leaves
\* failureCount exactly 3 higher.
C2_FailureCountedOnce ==
    /\ [](fpc # "idle" => fetch_stats.failures = call.failures0 + call.failed)
    /\ [](ReturnedNone =>
            /\ call.attempts = 3
            /\ call.sessions <= 3
            /\ call.quits = call.sessions
            /\ fetch_stats.failures = call.failures0 + 3)
    /\ [][ /\ (fpc = "attempt_returned" /\ fpc' = "cf_write") =>
                /\ fetch_stats'.failures = fetch_stats.failures + 1
                /\ fetch_stats'.consecutive_failures =
                      fetch_stats.consecutive_failures
                /\ cf_read' = fetch_stats.consecutive_failures
           /\ (fpc = "cf_write" /\ fpc' # "cf_write") =>
                /\ fetch_stats'.failures = fetch_stats.failures
                /\ fetch_stats'.consecutive_failures = cf_read + 1
           /\ (fpc = "attempt_returned" /\ fpc' = "returned") =>
                fetch_stats'.failures = fetch_stats.failures ]_vars

C2_Witness ==
    /\ ReturnedNone
    /\ call.sessions = 3
    /\ call.quits = 3
    /\ call.failures0 = 3
    /\ fetch_stats.failures = 6
    /\ fetch_stats.consecutive_failures = 6

\* C3: whenever fetch_price returns a price, consecutiveFailures is 0 at the
\* moment of return, whatever the streak was before the successful attempt.
C3_StreakResetOnSuccess ==
    ReturnedPrice => fetch_stats.consecutive_failures = 0

C3_Witness ==
    /\ ReturnedPrice
    /\ call.failed = 2
    /\ fetch_stats.failures = 5
    /\ fetch_stats.consecutive_failures = 0

\* C4 as stated: in a connected cycle the rename call is issued if and only if
\* the fetch returned a value that differs from last_price.
C4_RenameIffChanged ==
    ConnectedCycleEnded =>
        (cur.rename_calls = 1 <=> (Truthy(price) /\ price # cur.last0))

\* C4 amended: in a connected cycle the rename call is issued (once) if and
\* only if the fetch returned a value that differs from last_price and the
\* configured channel resolves to a voice channel; with a missing or non-voice
\* channel a differing value leads to no rename call.
C4_RenameIffChangedAndChannel ==
    ConnectedCycleEnded =>
        /\ cur.rename_calls \in {0, 1}
        /\ cur.rename_calls = 1 <=>
              (Truthy(price) /\ price # cur.last0 /\ cur.channel = "VoiceChannel")
        /\ cur.channel # "none" <=> (Truthy(price) /\ price # cur.last0)

C4_Witness ==
    /\ ConnectedCycleEnded
    /\ Truthy(price)
    /\ cur.last0 # None
    /\ price # cur.last0
    /\ cur.channel = "VoiceChannel"
    /\ cur.rename_calls = 1

\* Two consecutive connected cycles have ended whose fetches returned the same
\* value, different from last_price before the first of them
SameValueTwice ==
    /\ cycles >= 2
    /\ ConnectedCycleEnded
    /\ ~prev.skipped
    /\ Truthy(price)
    /\ prev.price = price
    /\ price # prev.last0

\* C5 as stated: two consecutive cycles fetching the same new value make
\* exactly one rename call in total, whatever the first cycle's publish outcome.
C5_OneRenameInTwoCycles ==
    SameValueTwice => prev.rename_calls + cur.rename_calls = 1

\* C5 amended: two consecutive cycles fetching the same new value make exactly
\* one rename call in total when the first cycle's rename call succeeded (the
\* second cycle then makes no publish call); when the first cycle's rename was
\* not issued or failed (permission error, rate limit, other failure), the
\* second cycle publishes again: presence once, and rename if the channel is a
\* voice channel.
C5_OneRenameAfterSuccess ==
    SameValueTwice =>
        /\ prev.renamed =>
              /\ prev.rename_calls = 1
              /\ cur.rename_calls = 0
              /\ cur.presence_calls = 0
        /\ ~prev.renamed =>
              /\ cur.presence_calls = 1
              /\ cur.rename_calls = 1 <=> cur.channel = "VoiceChannel"

C5_Witness ==
    /\ SameValueTwice
    /\ prev.renamed
    /\ prev.rename_calls = 1
    /\ cur.rename_calls = 0

\* C6: last_price changes only when a rename call has succeeded and then
\* becomes the value renamed to; in every state it is None or the value the
\* channel was last successfully renamed to.  Presence alone, a failed rename
\* or a missing channel never changes it.
C6_LastPriceOnlyOnRename ==
    /\ [](last_price # None => channel_name = DisplayName(last_price))
    /\ [][ last_price' # last_price =>
              /\ cpc = "rename"
              /\ cur'.rename = "ok"
              /\ last_price' = price
              /\ channel_name' = DisplayName(price) ]_vars
    /\ [][ (cpc = "presence" \/ cur'.rename \notin {"none", "ok"}) =>
              last_price' = last_price ]_vars

C6_Witness ==
    /\ cycles = 2
    /\ cpc = "idle"
    /\ cur.rename = "ok"
    /\ cur.last0 # None
    /\ last_price = price
    /\ last_price # cur.last0

\* C7: a rate-limited rename leaves last_price unchanged by that cycle, the
\* cycle ends normally and the task loop keeps running, so that the same
\* value is published again by the next cycle.
C7_RateLimitKeepsLastPrice ==
    (cpc = "idle" /\ cur.rename = "rate_limited") =>
        /\ last_price = cur.last0
        /\ price # last_price
        /\ loop_running

C7_Witness ==
    /\ cpc = "idle"
    /\ cur.rename = "rate_limited"
    /\ cur.last0 # None
    /\ last_price = cur.last0
    /\ loop_running

\* C8: a connected cycle whose fetch failed or returned a value equal to
\* last_price makes neither the presence call nor the rename call and leaves
\* last_price unchanged.
C8_NoPublishWhenUnchanged ==
    (ConnectedCycleEnded /\ (~Truthy(price) \/ price = cur.last0)) =>
        /\ cur.presence_calls = 0
        /\ cur.rename_calls = 0
        /\ cur.channel = "none"
        /\ last_price = cur.last0

C8_Witness ==
    /\ ConnectedCycleEnded
    /\ Truthy(price)
    /\ price = cur.last0
    /\ cur.presence_calls = 0
    /\ cur.rename_calls = 0

\* C9: in every attempt in which a browser session was constructed,
\* driver.quit() has been called exactly once when fetch_price_attempt
\* returns, on every exit path.
C9_QuitBeforeReturn ==
    fpc = "attempt_returned" =>
        /\ session # "none" => att.quit_calls = 1
        /\ session = "none" => att.quit_calls = 0
        /\ att.exit_path \in
              {"setup_failed", "success", "invalid_format", "empty_cleaned",
               "not_found", "TimeoutException", "WebDriverException",
               "Exception"}

C9_Witness ==
    /\ fpc = "attempt_returned"
    /\ att.exit_path = "TimeoutException"
    /\ raised
    /\ session # "none"
    /\ att.quit_calls = 1

\* C10 as stated: when an attempt that constructed a session returns, the
\* session is terminated and its browser/driver processes are swept, also
\* when terminating the session failed.
C10_TeardownComplete ==
    (fpc = "attempt_returned" /\ driver # "None") => session = "closed"

\* Browser sessions alive: the one of the current attempt and those that
\* driver.quit() left running in earlier attempts of the same call
LiveSessions == orphans + (IF session = "live" THEN 1 ELSE 0)

\* C11 as stated: in every reachable state at most one browser session is
\* live; a session is released before the next attempt creates one.
C11_OneLiveSession == LiveSessions <= 1

\* The strategies that yield non-empty text on the page, and the first of them
Yielding == {i \in Strategies : page[i].found /\ Strip(page[i].text) # <<>>}

Winner == CHOOSE i \in Yielding : \A j \in Yielding : i <= j

AfterLoop == fpc \in {"process", "finally", "attempt_returned"}

\* C12: the strategies are tried in list order; one that raises or yields
\* empty text is skipped; the loop ends at the first strategy yielding
\* non-empty text, whose text is the result, and no later strategy is tried.
C12_FirstNonEmptyWins ==
    /\ [](fpc = "locate" =>
            /\ ~Truthy(price_text)
            /\ \A j \in Yielding : sel <= j)
    /\ [](AfterLoop =>
            IF Yielding = {} THEN ~Truthy(price_text)
            ELSE price_text = Strip(page[Winner].text))
    /\ [][ fpc = "locate" =>
              \/ /\ fpc' = "locate"
                 /\ sel' = sel + 1
                 /\ sel \notin Yielding
              \/ /\ fpc' = "process"
                 /\ \/ sel \in Yielding /\ sel = Winner
                    \/ sel = Len(selectors_to_try) /\ Yielding = {} ]_vars

C12_Witness ==
    /\ fpc = "process"
    /\ \E i, j \in Yielding :
          /\ 1 < i
          /\ i < j
          /\ Strip(page[i].text) # Strip(page[j].text)
          /\ price_text = Strip(page[i].text)

\* A PriceString: digits with at most one decimal point, nothing else
IsPriceString(s) ==
    /\ s # <<>>
    /\ \A i \in 1..Len(s) : s[i] \in Digit \cup {"."}
    /\ Cardinality(Positions(s, {"."})) <= 1
    /\ Positions(s, Digit) # {}

\* C13 as stated: every value returned by fetch_price_attempt or fetch_price,
\* and every value stored in last_price, is a finite non-negative decimal
\* without currency symbol, thousands separator or surrounding whitespace.
C13_PriceStringInvariant ==
    /\ (fpc \in {"finally", "attempt_returned", "returned"} /\ Truthy(result))
          => IsPriceString(result)
    /\ Truthy(price) => IsPriceString(price)
    /\ last_price # None => IsPriceString(last_price)

\* The digits and decimal point of a text, in order
Undecorated(raw) == SelectSeq(raw, LAMBDA c : c \in Digit \cup {"."})

\* C14: for a decimal number decorated with "USDC", "$", "," and surrounding
\* whitespace, the attempt returns the text without those tokens and that
\* whitespace: the digits of the number, which is the same numeric value.
C14_NormalizationRemovesTokens ==
    (AfterLoop /\ fpc # "process" /\ Yielding # {}
       /\ page[Winner].text \in DecoratedTexts) =>
        /\ att.exit_path = "success"
        /\ result = Undecorated(page[Winner].text)
        /\ IsPriceString(result)

C14_Witness ==
    /\ fpc = "attempt_returned"
    /\ page[1].text =
          <<"$", "1", ",", "2", "3", "4", ".", "5", "6", " ", "U", "S", "D", "C">>
    /\ result = <<"1", "2", "3", "4", ".", "5", "6">>

\* A step of the executor thread that leaves fetch_price_attempt
AttemptCounted == fpc = "attempt_returned" /\ fpc' # fpc

\* C15 as stated: fetch_price never raises, and every attempt in which an
\* error occurred, session teardown included, is counted as one failed attempt.
C15_EveryErrorCounted ==
    /\ [](fpc = "returned" => ~call.escaped)
    /\ [][ (AttemptCounted /\ (att.exit_path # "success" \/ att.quit_raised)) =>
              call'.failed = call.failed + 1 ]_vars

\* C15 amended: fetch_price returns a price or None and never raises; an
\* attempt that ends with an error in provisioning, session construction,
\* navigation, value location or normalization is counted as exactly one
\* failed attempt; an error of driver.quit() is caught and logged and does not
\* change the attempt's outcome, so that a successful attempt whose teardown
\* failed still returns its price and is counted as a success.
C15_NoErrorEscapes ==
    /\ [](fpc = "returned" =>
            /\ ~call.escaped
            /\ result = None \/ Truthy(result))
    /\ [](fpc = "attempt_returned" =>
            /\ att.exit_path = "success" <=> Truthy(result)
            /\ raised => att.exit_path # "success")
    /\ [][ AttemptCounted =>
              IF att.exit_path = "success"
              THEN /\ fpc' = "returned"
                   /\ result' = result
                   /\ call'.failed = call.failed
                   /\ fetch_stats'.success = fetch_stats.success + 1
                   /\ fetch_stats'.failures = fetch_stats.failures
              ELSE /\ fpc' = "cf_write"
                   /\ call'.failed = call.failed + 1
                   /\ fetch_stats'.failures = fetch_stats.failures + 1
                   /\ fetch_stats'.success = fetch_stats.success ]_vars

C15_Witness ==
    /\ cycles = 1
    /\ ReturnedPrice
    /\ call.attempts = 2
    /\ call.failed = 1
    /\ call.sessions = 1
    /\ orphans = 1
    /\ fetch_stats.success = 1
    /\ fetch_stats.failures = 1

\* C16 as stated: no other execution context accesses fetch_stats while the
\* executor thread is between the read and the store of
\* fetch_stats["consecutive_failures"] += 1.
C16_NoConcurrentAccess ==
    [][ fpc = "cf_write" => (fetch_stats' = fetch_stats \/ fpc' # "cf_write") ]_vars

\* C17: a tick that finds the client not ready ends the cycle at once: no
\* adaptive delay, no fetch, no session, no publish call, and fetch_stats and
\* last_price are left as they were.
C17_SkippedCycleDoesNothing ==
    /\ [][ (cycles' = cycles + 1 /\ ~ready) =>
              /\ cpc' = "idle"
              /\ fpc' = "idle"
              /\ additional_delay' = 0
              /\ call' = NoCall
              /\ session' = "none"
              /\ orphans' = orphans
              /\ fetch_stats' = fetch_stats
              /\ last_price' = last_price
              /\ channel_name' = channel_name
              /\ cur'.skipped
              /\ cur'.presence_calls = 0
              /\ cur'.rename_calls = 0 ]_vars
    /\ [](cur.skipped =>
            /\ cpc = "idle"
            /\ fpc = "idle"
            /\ call = NoCall
            /\ cur.presence_calls = 0
            /\ cur.rename_calls = 0
            /\ last_price = cur.last0)

C17_Witness ==
    /\ cycles = 2
    /\ cur.skipped
    /\ ~prev.skipped
    /\ ~ready
    /\ fetch_stats.consecutive_failures >= 3

\* C18: the first successful attempt of a call adds exactly 1 to successCount
\* and the call returns its price at once: no attempt, provisioning call,
\* session or delay follows in that call.
C18_ReturnOnFirstSuccess ==
    /\ [][ (AttemptCounted /\ Truthy(result)) =>
              /\ fpc' = "returned"
              /\ result' = result
              /\ call' = call
              /\ fetch_stats'.success = fetch_stats.success + 1 ]_vars
    /\ [][ fpc = "returned" =>
              \/ fpc' = "returned" /\ call' = call /\ result' = result
              \/ fpc' = "idle" /\ price' = result ]_vars
    /\ [](ReturnedPrice =>
            /\ fetch_stats.success = call.success0 + 1
            /\ call.attempts = call.failed + 1
            /\ call.sessions <= call.attempts)

C18_Witness ==
    /\ ReturnedPrice
    /\ call.success0 = 1
    /\ fetch_stats.success = 2
    /\ call.attempts = 2
    /\ call.failed = 1

\* C19: when the first non-empty text is no number after normalization the
\* attempt ends with failure (invalid format, or empty after cleaning) and no
\* later strategy is tried, also when a later strategy would have yielded a
\* number; the attempt ends as "not found" exactly when no strategy yielded
\* non-empty text.
C19_InvalidFormatEndsAttempt ==
    /\ []((AfterLoop /\ fpc # "process") =>
            /\ att.exit_path = "not_found" <=> Yielding = {}
            /\ (Yielding # {} /\ ~IsPyFloat(CleanPrice(Strip(page[Winner].text))))
                  => /\ att.exit_path \in {"invalid_format", "empty_cleaned"}
                     /\ result = None
                     /\ price_text = Strip(page[Winner].text))
    /\ [][ fpc = "process" => (fpc' = "finally" /\ price_text' = price_text) ]_vars

C19_Witness ==
    /\ fpc = "attempt_returned"
    /\ att.exit_path = "invalid_format"
    /\ result = None
    /\ \E j \in Yielding :
          /\ Winner < j
          /\ IsPyFloat(CleanPrice(Strip(page[j].text)))

\* C20: a connected cycle that starts with consecutiveFailures >= 3 waits
\* min(30 * consecutiveFailures, 300) seconds before the fetch starts; the
\* delay is non-decreasing in the streak and never above 300; below the
\* threshold the fetch starts without delay.
C20_AdaptiveDelay ==
    /\ [][ (cycles' = cycles + 1 /\ ready) =>
              LET n == fetch_stats.consecutive_failures IN
              IF n >= 3
              THEN /\ cpc' = "delay"
                   /\ fpc' = "idle"
                   /\ call' = NoCall
                   /\ additional_delay' <= 300
                   /\ additional_delay' <= 30 * n
                   /\ additional_delay' = 300 \/ additional_delay' = 30 * n
              ELSE /\ additional_delay' = 0
                   /\ cpc' = "fetch" ]_vars
    /\ [][ (cpc = "delay" /\ cpc' # "delay") =>
              (cpc' = "fetch" /\ fpc' = "loop_top") ]_vars
    /\ [](cpc = "delay" =>
            /\ fpc = "idle"
            /\ call.attempts = 0
            /\ additional_delay \in 90..300)
    /\ [](\A m, n \in 0..MaxStreak :
            m <= n => adaptive_delay(m) <= adaptive_delay(n))

C20_Witness ==
    /\ cpc = "delay"
    /\ fetch_stats.consecutive_failures > 10
    /\ additional_delay = 300

\* ---------------------------------------------------------------- C21
\* The provisioner has run in the attempt
Provisioned == att.provision_calls = 1

\* C21: every attempt runs the provisioner exactly once and before it creates
\* a browser session (an attempt that starts has no result of an earlier
\* attempt to use), a session is created only after provisioning gave both
\* paths, and an attempt whose provisioning failed ends without a session.
C21_ProvisionEveryAttempt ==
    /\ [](/\ att.provision_calls <= 1
          /\ (fpc = "setup") => (att.provision_calls = 0 /\ session = "none")
          /\ (fpc \in {"construct", "navigate", "page_load", "locate",
                        "process"}) => (Provisioned /\ att.provisioned = "ok")
          /\ (session # "none") => (Provisioned /\ att.provisioned = "ok")
          /\ (att.provisioned = "failed") =>
                 (session = "none" /\ driver = "None"
                  /\ att.exit_path = "setup_failed"))
    /\ [][/\ (call'.sessions # call.sessions /\ call.attempts = call'.attempts) =>
                 (Provisioned /\ att.provisioned = "ok")
          /\ (fpc = "setup" /\ fpc' # fpc) =>
                 (att'.provision_calls = 1
                  /\ (att'.provisioned = "failed") =>
                         (fpc' = "finally" /\ result' = None /\ ~raised'))]_vars

\* The second attempt's provisioning failed after the first attempt, whose
\* provisioning succeeded, had created a session
C21_Witness ==
    /\ fpc = "attempt_returned"
    /\ att.exit_path = "setup_failed"
    /\ att.provisioned = "failed"
    /\ Provisioned
    /\ call.attempts = 2
    /\ call.sessions = 1

\* ---------------------------------------------------------------- C22
\* The host's offer when it is fixed
HostEnv == host[1]

\* The major version the provisioner found on the host
HostMajor == get_chrome_version(HostEnv).major_version

\* The driver the provisioner acquired on the host
HostDriver == download_compatible_chromedriver(HostMajor, HostEnv)

\* Browser found, version read, major version an integer, no driver override,
\* and the version lookup failed
LookupFailedOnHost ==
    /\ host # NoHost
    /\ find_chrome_binary(HostEnv) # "None"
    /\ get_chrome_version(HostEnv).found
    /\ IntOf(HostMajor) >= 0
    /\ ~HostEnv.override_driver
    /\ HostEnv.lookup # "200"

\* C22: with no driver override and a failed version lookup, provisioning for
\* every major version asks for the fallback version and goes on to the
\* download, so that it succeeds when download, archive and smoke test do.
C22_FallbackForEveryMajor ==
    (Provisioned /\ LookupFailedOnHost) =>
        /\ HostDriver.downloaded
        /\ HostDriver.driver_version = fallback_version(HostMajor)
        /\ (/\ HostEnv.download = "ok"
            /\ HostEnv.in_archive
            /\ HostEnv.smoke_test = "ok") => att.provisioned = "ok"

\* ---------------------------------------------------------------- C23
\* The version invocation exited non-zero, or the last token of its output
\* has no integer major version
VersionUnusable ==
    /\ host # NoHost
    /\ find_chrome_binary(HostEnv) # "None"
    /\ HostEnv.version_run # "exception"
    /\ \/ HostEnv.version_run = "nonzero_exit"
       \/ HostEnv.version_token = <<>>
       \/ IntOf(HostEnv.version_token[1]) < 0

\* C23: when the version invocation exits non-zero or its last token has no
\* integer major version, provisioning returns no paths and the attempt
\* creates no session, with or without a driver override.
C23_UnusableVersionFails ==
    (Provisioned /\ VersionUnusable) =>
        (att.provisioned = "failed" /\ session = "none" /\ call.sessions = 0)

\* ---------------------------------------------------------------- C24
\* change_presence raised in the cycle
PresenceFailed == cur.presence = "failed"

\* C24: a failed presence update does not end the cycle or stop the loop: the
\* channel is still looked up and, when it is a voice channel, renamed in the
\* same cycle, and a rename that succeeds after it still sets last_price to
\* the fetched price.
C24_PresenceBestEffort ==
    [][/\ (cpc = "presence" /\ cpc' # cpc /\ cur'.presence = "failed") =>
             /\ loop_running' = loop_running
             /\ last_price' = last_price
             /\ cur'.channel # "none"
             /\ (cur'.channel = "VoiceChannel") =>
                    (cpc' = "rename" /\ cur'.rename_calls = 1)
       /\ (cpc = "rename" /\ cpc' # cpc /\ PresenceFailed
           /\ cur'.rename = "ok") =>
             /\ last_price' = price
             /\ channel_name' = DisplayName(price)
             /\ loop_running' = loop_running]_vars

\* A cycle whose presence update failed renamed the channel and stored the
\* price
C24_Witness ==
    /\ cpc = "idle"
    /\ PresenceFailed
    /\ cur.rename = "ok"
    /\ cur.rename_calls = 1
    /\ Truthy(price)
    /\ last_price = price
    /\ channel_name = DisplayName(price)

\* ---------------------------------------------------------------- C25
\* fetch_price returns None and no reconnect signal arrived while it ran
FailedUndisturbed ==
    fpc = "cf_write" /\ fpc' = "returned" /\ ~call.resumed

\* C25 as stated: consecutive_failures counts the fetch_price calls failed in
\* a row, so a failed call leaves it exactly one above its value at the start
\* of the call.
C25_CountsFailedCalls ==
    [][FailedUndisturbed =>
          fetch_stats'.consecutive_failures = call.consecutive0 + 1]_vars

\* C25 amended: consecutive_failures counts failed attempts: every recorded
\* failure stores the value read plus one, a call that fails with no
\* reconnect signal during it leaves the counter max_attempts above its
\* value at the start of the call, and the counter is never below the number
\* of attempts failed in a row since the last success or reconnect signal.
C25_CountsFailedAttempts ==
    /\ [](fetch_stats.consecutive_failures >= hist.streak)
    /\ [][FailedUndisturbed =>
             /\ call.failed = max_attempts
             /\ fetch_stats'.consecutive_failures =
                    call.consecutive0 + max_attempts]_vars
    /\ [][(fpc = "cf_write" /\ fpc' # fpc) =>
             /\ fetch_stats'.consecutive_failures = cf_read + 1
             /\ hist'.streak = hist.streak + 1
             /\ (fetch_stats.consecutive_failures = cf_read) =>
                    (fetch_stats'.consecutive_failures
                         - fetch_stats.consecutive_failures
                     = hist'.streak - hist.streak)]_vars

\* The second call in a row has failed: six failed attempts, two failed calls
C25_Witness ==
    /\ ReturnedNone
    /\ ~call.resumed
    /\ call.consecutive0 = max_attempts
    /\ fetch_stats.consecutive_failures = 2 * max_attempts
    /\ hist.streak = 2 * max_attempts
    /\ hist.failed_calls = 2

\* ---------------------------------------------------------------- C26
\* The channel accepted the rename of the cycle
Renamed == cur.rename = "ok"

\* C26: when a connected cycle fetches a value different from last_price and
\* the rename succeeds, the name sent is the display prefix, the currency
\* symbol and exactly that value, and last_price is that value when the cycle
\* ends; on a page showing "$0.1234" under the first CSS selector the value
\* published is "0.1234".
C26_PublishesFetchedValue ==
    /\ [][(cpc = "rename" /\ cpc' # cpc /\ cur'.rename = "ok") =>
             /\ Truthy(price)
             /\ price # last_price
             /\ channel_name' = <<"prANA Price: ", "$">> \o price
             /\ last_price' = price]_vars
    /\ []((ConnectedCycleEnded /\ Renamed) =>
             /\ last_price = price
             /\ channel_name = <<"prANA Price: ", "$">> \o price
             /\ (page # NoPage /\ page[2].text = <<"$", "0", ".", "1", "2", "3", "4">>)
                    => last_price = <<"0", ".", "1", "2", "3", "4">>)

\* The first cycle on the page showing "$0.1234" has published "0.1234"
C26_Witness ==
    /\ ConnectedCycleEnded
    /\ Renamed
    /\ cycles = 1
    /\ page # NoPage
    /\ ~page[1].found
    /\ page[2].text = <<"$", "0", ".", "1", "2", "3", "4">>
    /\ last_price = <<"0", ".", "1", "2", "3", "4">>
    /\ channel_name = <<"prANA Price: ", "$", "0", ".", "1", "2", "3", "4">>

\* ---------------------------------------------------------------- C27
\* fetch_stats["success"] + fetch_stats["failures"]
total_attempts == fetch_stats.success + fetch_stats.failures

\* C27: success + failures is the number of attempts completed since the
\* process started; the step that completes an attempt raises exactly one of
\* the two counters, by one, and no other step changes either of them.
C27_CountersSumToAttempts ==
    /\ [](total_attempts = hist.completed)
    /\ [][IF AttemptCounted
          THEN \/ /\ fetch_stats'.success = fetch_stats.success + 1
                  /\ fetch_stats'.failures = fetch_stats.failures
               \/ /\ fetch_stats'.success = fetch_stats.success
                  /\ fetch_stats'.failures = fetch_stats.failures + 1
          ELSE /\ fetch_stats'.success = fetch_stats.success
               /\ fetch_stats'.failures = fetch_stats.failures
               /\ hist'.completed = hist.completed]_vars

\* Five attempts are complete: four failed, one succeeded, and a reconnect
\* signal has arrived since
C27_Witness ==
    /\ fetch_stats.success = 1
    /\ fetch_stats.failures = 4
    /\ hist.completed = 5
    /\ hist.streak = 0
    /\ cycles = 2
    /\ fpc = "returned"

\* ---------------------------------------------------------------- C28
\* C28: the reset of on_resumed is never lost: consecutive_failures never
\* exceeds the number of failures stored since the last reconnect signal or
\* success, whatever the interleaving of on_resumed with the executor thread.
C28_ResetNeverLost ==
    fetch_stats.consecutive_failures <= hist.streak

====
